---- MODULE Spec2Model ----
(***************************************************************************)
(* Model of the health-api ingestion code.                                 *)
(*                                                                         *)
(*   src/src/apple.py  push pipeline: process_metrics aggregates a batch   *)
(*                     of named metrics into one row per calendar date and *)
(*                     upserts every row inside one transaction.           *)
(*   src/main.py       pull pipeline: main fetches sleep sessions,         *)
(*                     prepare_sleep_data projects them on a fixed key     *)
(*                     list, upsert_sleep_data writes them in one          *)
(*                     statement, main commits.                            *)
(*                                                                         *)
(* Numbers.  Quantities are floats in the source.  They are modelled as    *)
(* exact rationals <<numerator, denominator>> in lowest terms, so that the *)
(* kJ -> kcal division is a real conversion and not the identity; float    *)
(* rounding is not modelled.                                               *)
(*                                                                         *)
(* Store.  A table is a set of rows [key, cols]; cols maps every column of *)
(* the table to a value or NULL.  A table is a set and not a function of   *)
(* the key, so that "one row per key" is a property of the statements the  *)
(* code issues and not of the representation.                              *)
(***************************************************************************)
EXTENDS Integers, Sequences, FiniteSets, TLC

\* ------------------------------------------------------------------ bounds

\* Largest number of samples in one pushed batch (summed over its metrics).
MaxSamples == 2

\* Largest number of records in one pull (Oura response / upsert call).
MaxRecords == 2

\* Sample quantities offered by the environment (523 kJ is exactly 125 kcal).
Qtys == {1, 523}

\* Timestamps offered by the environment: "YYYY-MM-DD HH:MM:SS +-HHMM" strings
\* as their fields.  An empty tz field stands for a string the format
\* "%Y-%m-%d %H:%M:%S %z" does not match.
Timestamps ==
    { [ymd |-> 1, hms |-> "08:00:00", tz |-> "+0000"],
      [ymd |-> 2, hms |-> "23:30:00", tz |-> "-0500"],
      [ymd |-> 1, hms |-> "08:00:00", tz |-> ""] }

\* Metric names offered by the environment.  Every name is foreign to one of
\* the two endpoints.
MetricNames == {"dietary_energy", "weight_body_mass", "body_fat_percentage"}

NULL == <<>>

\* ------------------------------------------------------- program constants

DIET_METRICS == {"dietary_energy"}

BODY_COMPOSITION_METRICS ==
    {"lean_body_mass", "body_mass_index", "weight_body_mass", "body_fat_percentage"}

\* Columns of the two push tables besides the primary key `date`.
DietColumns == {"dietary_energy"}

BodyColumns ==
    {"lean_body_mass", "body_mass_index", "weight_body_mass", "body_fat_percentage"}

\* Columns of sleep_data besides the primary key `id` (CREATE TABLE in main).
SleepColumns ==
    {"average_breath", "average_heart_rate", "average_hrv", "awake_time",
     "bedtime_end", "bedtime_start", "day", "deep_sleep_duration", "efficiency",
     "latency", "light_sleep_duration", "low_battery_alert", "lowest_heart_rate",
     "period", "readiness_score", "readiness_score_delta", "rem_sleep_duration",
     "restless_periods", "sleep_score_delta", "sleep_algorithm_version",
     "time_in_bed", "total_sleep_duration", "type", "heart_rate", "hrv",
     "movement_30_sec", "readiness", "sleep_phase_5_min"}

\* The keys prepare_sleep_data copies from every fetched item.
PreparedKeys ==
    {"id", "average_breath", "average_heart_rate", "average_hrv", "awake_time",
     "bedtime_end", "bedtime_start", "day", "deep_sleep_duration", "efficiency",
     "latency", "light_sleep_duration", "lowest_heart_rate", "rem_sleep_duration",
     "restless_periods", "sleep_score_delta", "time_in_bed",
     "total_sleep_duration", "type"}

\* ----------------------------------------------------------------- helpers

RECURSIVE Gcd(_, _)
Gcd(a, b) == IF b = 0 THEN a ELSE Gcd(b, a % b)

\* A positive rational in lowest terms.
Ratio(n, d) == LET g == Gcd(n, d) IN <<n \div g, d \div g>>

\* dict[k] = v on a Python dict modelled as a function.
Put(f, k, v) == [x \in (DOMAIN f) \cup {k} |-> IF x = k THEN v ELSE f[x]]

SeqsUpTo(S, n) == UNION { [1..m -> S] : m \in 0..n }

\* ---------------------------------------------------------- Unit Converter

\* value = data_point.qty; if metric.name == "dietary_energy": value /= 4.184
Convert(name, qty) ==
    IF name = "dietary_energy" THEN Ratio(qty * 1000, 4184) ELSE Ratio(qty, 1)

\* datetime.strptime(s, "%Y-%m-%d %H:%M:%S %z"): succeeds iff the string has
\* all fields of the format; .date() is the calendar date as written (the
\* offset is not applied).
WellFormed(ts) == ts.tz # ""
ParseDate(ts) == ts.ymd

\* ------------------------------------------------------- Metric Aggregator

\* metrics_data: Dict[date, Dict[str, float]].  A Python dict iterates in
\* insertion order, so it is a sequence of entries [date, metrics], one per
\* date, in the order the dates were first seen.
EmptyAgg == [md |-> <<>>, count |-> 0, err |-> "none"]

DateIndex(md, d) ==
    IF \E i \in 1..Len(md) : md[i].date = d
    THEN CHOOSE i \in 1..Len(md) : md[i].date = d
    ELSE 0

\* Mutant of SetMetric: the first value of a metric for a date is kept.
SetMetricKeepFirst(md, d, name, v) ==
    LET i == DateIndex(md, d) IN
    IF i = 0
    THEN Append(md, [date |-> d, metrics |-> Put(<<>>, name, v)])
    ELSE IF name \in DOMAIN md[i].metrics THEN md
    ELSE [md EXCEPT ![i].metrics = Put(@, name, v)]

\* if metric_date not in metrics_data: metrics_data[metric_date] = {}
\* metrics_data[metric_date][metric.name] = value
SetMetric(md, d, name, v) ==
    LET i == DateIndex(md, d) IN
    IF i = 0
    THEN Append(md, [date |-> d, metrics |-> Put(<<>>, name, v)])
    ELSE [md EXCEPT ![i].metrics = Put(@, name, v)]

\* Mutant of AggPoint: a sample whose timestamp does not parse is skipped.
AggPointSkipsMalformed(st, name, point) ==
    IF ~WellFormed(point.date)
    THEN st
    ELSE [st EXCEPT !.md = SetMetric(@, ParseDate(point.date), name,
                                     Convert(name, point.qty)),
                    !.count = @ + 1]

\* One iteration of `for data_point in metric.data`.
AggPoint(st, name, point) ==
    IF ~WellFormed(point.date)
    THEN [st EXCEPT !.err = "ValueError"]
    ELSE [st EXCEPT !.md = SetMetric(@, ParseDate(point.date), name,
                                     Convert(name, point.qty)),
                    !.count = @ + 1]

RECURSIVE AggData(_, _, _)
AggData(st, name, data) ==
    IF data = <<>> \/ st.err # "none" THEN st
    ELSE AggData(AggPoint(st, name, Head(data)), name, Tail(data))

\* Mutant of Skipped: no metric is skipped.
NeverSkipped(metric, allowed_metrics) == FALSE

\* if metric.name not in allowed_metrics: (warning) continue
Skipped(metric, allowed_metrics) == metric.name \notin allowed_metrics

\* The loop `for metric in metrics` of process_metrics.
RECURSIVE AggMetrics(_, _, _)
AggMetrics(st, metrics, allowed_metrics) ==
    IF metrics = <<>> \/ st.err # "none" THEN st
    ELSE LET metric == Head(metrics) IN
         AggMetrics(IF Skipped(metric, allowed_metrics)
                    THEN st
                    ELSE AggData(st, metric.name, metric.data),
                    Tail(metrics), allowed_metrics)

Aggregate(metrics, allowed_metrics) == AggMetrics(EmptyAgg, metrics, allowed_metrics)

\* --------------------------------------------------- Dynamic Upsert Writer

Columns(table_name) ==
    IF table_name = "diet" THEN DietColumns
    ELSE IF table_name = "body_composition" THEN BodyColumns
    ELSE SleepColumns

\* Mutant of Upsert: SET col = t.col + EXCLUDED.col (values add up).
UpsertAccumulate(rows, all_columns, key, vals) ==
    LET Sum(a, b) == IF a = NULL THEN b
                     ELSE Ratio(a[1] * b[2] + b[1] * a[2], a[2] * b[2]) IN
    IF \E r \in rows : r.key = key
    THEN { IF r.key = key
           THEN [r EXCEPT !.cols = [c \in all_columns |->
                                       IF c \in DOMAIN vals THEN Sum(@[c], vals[c])
                                       ELSE @[c]]]
           ELSE r : r \in rows }
    ELSE rows \cup { [key |-> key,
                      cols |-> [c \in all_columns |->
                                   IF c \in DOMAIN vals THEN vals[c] ELSE NULL]] }

\* Mutant of Upsert: the conflicting row is replaced as a whole, columns
\* that were not submitted become NULL.
UpsertAllColumns(rows, all_columns, key, vals) ==
    { r \in rows : r.key # key }
    \cup { [key |-> key,
            cols |-> [c \in all_columns |->
                         IF c \in DOMAIN vals THEN vals[c] ELSE NULL]] }

\* Mutant of Upsert: a plain INSERT into a table without the primary key.
InsertOnly(rows, all_columns, key, vals) ==
    rows \cup { [key |-> key,
                 cols |-> [c \in all_columns |->
                              IF c \in DOMAIN vals THEN vals[c] ELSE NULL]] }

\* INSERT INTO t (key, cols) VALUES (...) ON CONFLICT (key) DO UPDATE
\* SET col = EXCLUDED.col for every submitted col.  `vals` maps the submitted
\* columns to their values; a fresh row has NULL in the other columns.
Upsert(rows, all_columns, key, vals) ==
    IF \E r \in rows : r.key = key
    THEN { IF r.key = key
           THEN [r EXCEPT !.cols = [c \in all_columns |->
                                       IF c \in DOMAIN vals THEN vals[c] ELSE @[c]]]
           ELSE r : r \in rows }
    ELSE rows \cup { [key |-> key,
                      cols |-> [c \in all_columns |->
                                   IF c \in DOMAIN vals THEN vals[c] ELSE NULL]] }

\* The statement names the columns of date_metrics; the store rejects a
\* column the table does not have.
StatementValid(table_name, entry) == DOMAIN entry.metrics \subseteq Columns(table_name)

\* The loop `for metric_date, date_metrics in metrics_data.items()` inside the
\* transaction: rows is the transaction's view of the table.  fail_at is the
\* position of the cur.execute the store fails on (0: none).
RECURSIVE WriteRows(_, _, _, _, _)
WriteRows(rows, table_name, md, i, fail_at) ==
    IF i > Len(md) THEN [rows |-> rows, err |-> "none"]
    ELSE IF i = fail_at \/ ~StatementValid(table_name, md[i])
    THEN [rows |-> rows, err |-> "psycopg.Error"]
    ELSE WriteRows(Upsert(rows, Columns(table_name), md[i].date, md[i].metrics),
                   table_name, md, i + 1, fail_at)

\* Mutant of Abort: the statements executed before the failure stay (as
\* with autocommit, or a commit per row).
AbortKeepsWork(before, txn) == txn

\* Leaving `with create_pg_connection() as conn` by an exception rolls the
\* transaction back: the table is what it was before the call.
Abort(before, txn) == before

\* process_metrics(metrics, allowed_metrics, table_name) on a table whose
\* committed content is rows.
ProcessMetrics(metrics, allowed_metrics, table_name, rows, fail_at) ==
    LET agg == Aggregate(metrics, allowed_metrics) IN
    IF agg.err # "none"
    THEN [rows |-> rows, status |-> agg.err, count |-> 0]
    ELSE LET w == WriteRows(rows, table_name, agg.md, 1, fail_at) IN
         IF w.err # "none"
         THEN [rows |-> Abort(rows, w.rows), status |-> w.err, count |-> 0]
         ELSE [rows |-> w.rows, status |-> "ok", count |-> agg.count]

\* ------------------------------------------------------------------ inputs

\* MetricData of the environment: the first day comes with every quantity,
\* the second day and the malformed timestamp with the first quantity only.
Samples ==
    { s \in [date : Timestamps, qty : Qtys] :
        s.qty = 1 \/ (WellFormed(s.date) /\ s.date.ymd = 1) }

\* All batches (List[Metric]) with at most n samples in total, every metric
\* carrying at least one sample.
RECURSIVE Batches(_)
Batches(n) ==
    {<<>>} \cup
    UNION { { <<[name |-> nm, data |-> d]>> \o rest :
                nm \in MetricNames, d \in [1..j -> Samples], rest \in Batches(n - j) }
            : j \in 1..n }

\* The batches the environment posts.
PushBatches == Batches(MaxSamples)

\* ----------------------------------------------------------- pull pipeline

\* prepare_sleep_data: every item is projected on PreparedKeys; item[k] of a
\* missing key raises KeyError.
PrepareSleepData(data) ==
    IF \E i \in 1..Len(data) : ~(PreparedKeys \subseteq DOMAIN data[i])
    THEN [err |-> "KeyError", data |-> <<>>]
    ELSE [err |-> "none",
          data |-> [i \in 1..Len(data) |-> [k \in PreparedKeys |-> data[i][k]]]]

\* What the store rejects in the single INSERT ... VALUES ... ON CONFLICT (id)
\* DO UPDATE SET ... statement: a column the table lacks, no id column (the
\* primary key is then NULL), an empty SET list, or two proposed rows with
\* the same id (the statement may not update a row twice).
SleepStatementValid(columns, data) ==
    /\ columns \subseteq SleepColumns \cup {"id"}
    /\ "id" \in columns
    /\ columns # {"id"}
    /\ \A i, j \in 1..Len(data) : data[i]["id"] = data[j]["id"] => i = j

RECURSIVE UpsertRecords(_, _, _, _)
UpsertRecords(rows, columns, data, i) ==
    IF i > Len(data) THEN rows
    ELSE UpsertRecords(Upsert(rows, SleepColumns, data[i]["id"],
                              [c \in columns \ {"id"} |-> data[i][c]]),
                       columns, data, i + 1)

\* upsert_sleep_data(cursor, data): columns = data[0].keys() (IndexError on
\* an empty list); item[col] for col in columns (KeyError when a record
\* lacks a key of the first; a key the first lacks is never read); one
\* execute_values statement.  store_fails: the store fails the statement.
UpsertSleepData(rows, data, store_fails) ==
    IF data = <<>> THEN [rows |-> rows, err |-> "IndexError"]
    ELSE LET columns == DOMAIN data[1] IN
         IF \E i \in 1..Len(data) : ~(columns \subseteq DOMAIN data[i])
         THEN [rows |-> rows, err |-> "KeyError"]
         ELSE IF store_fails \/ ~SleepStatementValid(columns, data)
         THEN [rows |-> rows, err |-> "psycopg2.Error"]
         ELSE [rows |-> UpsertRecords(rows, columns, data, 1), err |-> "none"]

\* main after the fetch: upsert_sleep_data(cursor, prepared_data);
\* conn.commit().  An exception leaves main before conn.commit(), and the
\* connection's transaction is never committed.
WriteSleep(rows, prepared_data, store_fails) ==
    LET w == UpsertSleepData(rows, prepared_data, store_fails) IN
    IF w.err # "none"
    THEN [rows |-> rows, status |-> w.err, count |-> 0]
    ELSE [rows |-> w.rows, status |-> "ok", count |-> Len(prepared_data)]

\* main with the fetched list raw_data.
Main(rows, raw_data, store_fails) ==
    LET p == PrepareSleepData(raw_data) IN
    IF p.err # "none"
    THEN [rows |-> rows, status |-> p.err, count |-> 0]
    ELSE WriteSleep(rows, p.data, store_fails)

\* Sleep records of the environment: an id, one value for all other fields,
\* and a key set.  Records with the prepared keys come with every value,
\* the others with the first value only.
SleepIds == {"s1", "s2"}
SleepVals == {<<1>>, <<2>>}

SleepRecord(keys, id, v) == [k \in keys |-> IF k = "id" THEN id ELSE v]

SleepRecords(regular, irregular) ==
    { SleepRecord(regular, id, v) : id \in SleepIds, v \in SleepVals }
    \cup { SleepRecord(ks, id, <<1>>) : ks \in irregular, id \in SleepIds }

\* Items of the vendor response: the prepared keys and one more (dropped by
\* prepare_sleep_data), or one prepared key short.
RawItems == SleepRecords(PreparedKeys \cup {"hrv"}, {PreparedKeys \ {"type"}})

\* Records handed to upsert_sleep_data directly: the prepared keys, one key
\* short, or one key more.
Records ==
    SleepRecords(PreparedKeys, {PreparedKeys \ {"type"}, PreparedKeys \cup {"period"}})

\* The lists the vendor returns, and the lists upsert_sleep_data is called with.
RawLists == SeqsUpTo(RawItems, MaxRecords)
PreparedLists == SeqsUpTo(Records, MaxRecords)

\* ------------------------------------------------------------------- state

TableNames == {"diet", "body_composition", "sleep_data"}

VARIABLES
    db,      \* committed content of every table: table name -> set of rows
    scope,   \* the table this behaviour's requests are addressed to
    pc,      \* "idle": no call recorded; "done": the last call has returned
    req,     \* the last call: its operation and arguments
    pre,     \* db before the last call (before its first run when re-run)
    resp,    \* what the last call returned or raised
    first,   \* when the call was re-run: db and resp after its first run
    runs,    \* how many times the last call ran (0 when idle)
    wpc,     \* concurrent requests: "idle", "writing", "committed", "failed"
    wmd,     \* concurrent requests: metrics_data of the request
    wpos,    \* concurrent requests: position of the next row to execute
    wtxn,    \* concurrent requests: rows written and not yet committed
    serial,  \* the table after the committed requests, run one after another
    overlapped \* whether a request wrote while another had uncommitted rows

seqvars == <<pc, req, pre, resp, first, runs>>
wvars == <<wpc, wmd, wpos, wtxn, serial, overlapped>>
vars == <<db, scope, pc, req, pre, resp, first, runs,
          wpc, wmd, wpos, wtxn, serial, overlapped>>

\* The requests in flight at the same time.
Workers == {"w1", "w2"}

NoReq == [op |-> "none"]
NoResp == [status |-> "none", count |-> 0]
NoFirst == [db |-> [t \in TableNames |-> {}], resp |-> NoResp, fail_at |-> 0]

Init ==
    /\ db = [t \in TableNames |-> {}]
    /\ scope \in TableNames
    /\ pc = "idle"
    /\ req = NoReq
    /\ pre = db
    /\ resp = NoResp
    /\ first = NoFirst
    /\ runs = 0
    /\ wpc = [w \in Workers |-> "idle"]
    /\ wmd = [w \in Workers |-> <<>>]
    /\ wpos = [w \in Workers |-> 1]
    /\ wtxn = [w \in Workers |-> {}]
    /\ serial = {}
    /\ overlapped = FALSE

AllowedFor(table_name) ==
    IF table_name = "diet" THEN DIET_METRICS ELSE BODY_COMPOSITION_METRICS

\* The outcome of running call r on database d.
Run(r, d) ==
    IF r.op = "push"
    THEN ProcessMetrics(r.metrics, AllowedFor(r.table), r.table, d[r.table], r.fail_at)
    ELSE IF r.op = "main"
    THEN Main(d["sleep_data"], r.data, r.fail_at = 1)
    ELSE WriteSleep(d["sleep_data"], r.data, r.fail_at = 1)

Target(r) == IF r.op = "push" THEN r.table ELSE "sleep_data"

Call(r) ==
    LET out == Run(r, db) IN
    /\ db' = [db EXCEPT ![Target(r)] = out.rows]
    /\ pre' = db
    /\ req' = r
    /\ resp' = [status |-> out.status, count |-> out.count]
    /\ first' = NoFirst
    /\ runs' = 1
    /\ pc' = "done"
    /\ UNCHANGED <<scope, wvars>>

\* POST /dietary-energy/ : process_metrics(metrics, DIET_METRICS, "diet")
AddDietaryEnergy ==
    /\ pc = "idle"
    /\ scope = "diet"
    /\ \E metrics \in PushBatches :
         \E f \in 0..Len(Aggregate(metrics, DIET_METRICS).md) :
            Call([op |-> "push", table |-> "diet", metrics |-> metrics, fail_at |-> f])

\* POST /body-composition/
AddBodyComposition ==
    /\ pc = "idle"
    /\ scope = "body_composition"
    /\ \E metrics \in PushBatches :
         \E f \in 0..Len(Aggregate(metrics, BODY_COMPOSITION_METRICS).md) :
            Call([op |-> "push", table |-> "body_composition",
                  metrics |-> metrics, fail_at |-> f])

\* python main.py
PullMain ==
    /\ pc = "idle"
    /\ scope = "sleep_data"
    /\ \E data \in RawLists, f \in 0..1 :
         Call([op |-> "main", data |-> data, fail_at |-> f])

\* upsert_sleep_data called with a cursor and a list, then committed.
PullUpsert ==
    /\ pc = "idle"
    /\ scope = "sleep_data"
    /\ \E data \in PreparedLists, f \in 0..1 :
         Call([op |-> "upsert", data |-> data, fail_at |-> f])

\* The caller delivers the same payload again, and the store is healthy this
\* time (a second failure is the failure of a fresh call, which Return and
\* the call actions already produce).
Resubmit ==
    /\ pc = "done"
    /\ runs = 1
    /\ LET r == [req EXCEPT !.fail_at = 0]
           out == Run(r, db) IN
       /\ db' = [db EXCEPT ![Target(r)] = out.rows]
       /\ req' = r
       /\ resp' = [status |-> out.status, count |-> out.count]
       /\ first' = [db |-> db, resp |-> resp, fail_at |-> req.fail_at]
    /\ runs' = 2
    /\ UNCHANGED <<scope, pc, pre, wvars>>

\* The record of the last call is dropped; the next call may arrive.
Return ==
    /\ pc = "done"
    /\ pc' = "idle"
    /\ req' = NoReq
    /\ pre' = db
    /\ resp' = NoResp
    /\ first' = NoFirst
    /\ runs' = 0
    /\ UNCHANGED <<db, scope, wvars>>

Next ==
    \/ AddDietaryEnergy
    \/ AddBodyComposition
    \/ PullMain
    \/ PullUpsert
    \/ Resubmit
    \/ Return

Spec == Init /\ [][Next]_vars

\* ------------------------------------------------------ concurrent pushes

\* Requests run process_metrics at the same time, each on its own connection
\* and transaction (READ COMMITTED, the store's default).  The aggregation
\* touches no shared state and is one step; every cur.execute and the
\* conn.commit() are steps of their own.

\* Mutant of RowLocked: a statement never waits for another transaction.
NeverLocked(w, key) == FALSE

\* INSERT ... ON CONFLICT (date) waits while another transaction holds an
\* uncommitted row with the same key.
RowLocked(w, key) == \E o \in Workers \ {w} : key \in { r.key : r \in wtxn[o] }

\* What a statement of w reads: the committed rows, and w's own rows in
\* place of the committed rows with their keys.
View(w) == { r \in db[scope] : r.key \notin { x.key : x \in wtxn[w] } } \cup wtxn[w]

\* The request arrives and is aggregated; a parse error ends it before a
\* connection is opened.
Begin(w) ==
    /\ wpc[w] = "idle"
    /\ \E metrics \in PushBatches :
         LET agg == Aggregate(metrics, AllowedFor(scope)) IN
         IF agg.err # "none"
         THEN /\ wpc' = [wpc EXCEPT ![w] = "failed"]
              /\ UNCHANGED wmd
         ELSE /\ wpc' = [wpc EXCEPT ![w] = "writing"]
              /\ wmd' = [wmd EXCEPT ![w] = agg.md]
    /\ UNCHANGED <<db, scope, seqvars, wpos, wtxn, serial, overlapped>>

\* cur.execute(query, values) for the next date succeeds.
Execute(w) ==
    /\ wpc[w] = "writing"
    /\ wpos[w] <= Len(wmd[w])
    /\ LET e == wmd[w][wpos[w]]
           written == Upsert(View(w), Columns(scope), e.date, e.metrics) IN
       /\ StatementValid(scope, e)
       /\ ~RowLocked(w, e.date)
       /\ wtxn' = [wtxn EXCEPT ![w] =
                      { r \in @ : r.key # e.date }
                      \cup { r \in written : r.key = e.date }]
    /\ wpos' = [wpos EXCEPT ![w] = @ + 1]
    /\ overlapped' = (overlapped \/ \E o \in Workers \ {w} : wtxn[o] # {})
    /\ UNCHANGED <<db, scope, seqvars, wpc, wmd, serial>>

\* cur.execute raises psycopg.Error (the store fails the statement, or picks
\* the transaction as the victim of a deadlock): the exception leaves the
\* `with` block and the transaction is rolled back.
ExecuteFails(w) ==
    /\ wpc[w] = "writing"
    /\ wpos[w] <= Len(wmd[w])
    /\ wpc' = [wpc EXCEPT ![w] = "failed"]
    /\ wtxn' = [wtxn EXCEPT ![w] = {}]
    /\ UNCHANGED <<db, scope, seqvars, wmd, wpos, serial, overlapped>>

\* conn.commit() after the loop.
Commit(w) ==
    /\ wpc[w] = "writing"
    /\ wpos[w] > Len(wmd[w])
    /\ db' = [db EXCEPT ![scope] =
                 { r \in @ : r.key \notin { x.key : x \in wtxn[w] } } \cup wtxn[w]]
    /\ serial' = WriteRows(serial, scope, wmd[w], 1, 0).rows
    /\ wpc' = [wpc EXCEPT ![w] = "committed"]
    /\ wtxn' = [wtxn EXCEPT ![w] = {}]
    /\ UNCHANGED <<scope, seqvars, wmd, wpos, overlapped>>

NextConcurrent ==
    \E w \in Workers :
        \/ Begin(w)
        \/ Execute(w)
        \/ ExecuteFails(w)
        \/ Commit(w)

\* Both requests are posted to the same push endpoint.
InitConcurrent == Init /\ scope # "sleep_data"

SpecConcurrent == InitConcurrent /\ [][NextConcurrent]_vars

\* ------------------------------------------------------- claims, sequential

\* The database right before the last run of the recorded call.
Before == IF runs = 2 THEN first.db ELSE pre

Keys(rows) == { r.key : r \in rows }

RowOf(rows, key) == CHOOSE r \in rows : r.key = key

PushDone == pc = "done" /\ req.op = "push"

\* The aggregated rows of the recorded push call.
ReqAgg == Aggregate(req.metrics, AllowedFor(req.table))

\* The samples of a batch in iteration order, each with its metric's name.
RECURSIVE Flat(_)
Flat(metrics) ==
    IF metrics = <<>> THEN <<>>
    ELSE [j \in 1..Len(Head(metrics).data) |->
             [name |-> Head(metrics).name,
              date |-> Head(metrics).data[j].date,
              qty |-> Head(metrics).data[j].qty]] \o Flat(Tail(metrics))

AllowedOnly(metrics, allowed_metrics) ==
    SelectSeq(metrics, LAMBDA m : m.name \in allowed_metrics)

\* The dates the well-formed samples of allow-listed metrics mention.
AllowedDates(metrics, allowed_metrics) ==
    LET f == Flat(metrics) IN
    { ParseDate(f[j].date) :
        j \in { k \in 1..Len(f) : f[k].name \in allowed_metrics /\ WellFormed(f[k].date) } }

C7_SchemaMismatchFails ==
    (pc = "done" /\ req.op = "upsert"
        /\ \E i \in 1..Len(req.data) : DOMAIN req.data[i] # DOMAIN req.data[1])
      => (resp.status # "ok" /\ db = Before)

UniqueKeys == \A t \in TableNames : \A r1, r2 \in db[t] : r1.key = r2.key => r1 = r2

\* C9. One row per natural key, never deleted: every table holds at most one
\* row per key in every state, and no step removes a key from a table.
C9_OneRowPerKeyNeverDeleted ==
    [][/\ UniqueKeys /\ UniqueKeys'
       /\ \A t \in TableNames : Keys(db[t]) \subseteq Keys(db'[t])]_vars

\* After a repeated call and at least one earlier call, a table holds two
\* keys.
C9_Witness ==
    /\ pc = "done" /\ runs = 2 /\ resp.status = "ok"
    /\ pre[scope] # {}
    /\ Cardinality(Keys(db[scope])) = 2
    /\ Cardinality(db[scope]) = 2

\* C10 as stated: a malformed timestamp anywhere in the batch fails the
\* request and leaves the table unchanged.
C10_AnyMalformedFails ==
    (PushDone /\ \E j \in 1..Len(Flat(req.metrics)) :
                    ~WellFormed(Flat(req.metrics)[j].date))
      => (resp.status # "ok" /\ db = Before)

\* C10, amended: a malformed timestamp in a sample of an allow-listed metric
\* fails the request with the parse error and leaves the table unchanged.
C10_AllowedMalformedFails ==
    (PushDone /\ \E j \in 1..Len(Flat(req.metrics)) :
                    /\ Flat(req.metrics)[j].name \in AllowedFor(req.table)
                    /\ ~WellFormed(Flat(req.metrics)[j].date))
      => (resp.status = "ValueError" /\ db = Before)

\* A push failed on a malformed sample that came after a valid sample of
\* another date.
C10_Witness ==
    /\ PushDone /\ resp.status = "ValueError"
    /\ \E j, k \in 1..Len(Flat(req.metrics)) :
          LET f == Flat(req.metrics) IN
          /\ j < k
          /\ f[j].name \in AllowedFor(req.table) /\ WellFormed(f[j].date)
          /\ f[k].name \in AllowedFor(req.table) /\ ~WellFormed(f[k].date)
          /\ ParseDate(f[j].date) \notin Keys(db[req.table])

\* ------------------------------------------------------- claims, concurrent

====
